---- MODULE Spec2Model ----
(***************************************************************************)
(* A model of the tak-tactics puzzle backend: the three request handlers   *)
(* of src/src/main.rs (get_puzzle, get_puzzle_rating, solve_puzzle), the   *)
(* SQL queries they run, the target-time computation of                    *)
(* impl From<PuzzleRow> for Puzzle, and src/src/ratings.rs.                *)
(*                                                                         *)
(* Text (root_tps, solution) is a sequence of one-character strings, so    *)
(* that split_whitespace and the character filter are computed, not        *)
(* assumed.  Player names are atoms; "" is the empty name.                 *)
(***************************************************************************)
EXTENDS Integers, Sequences, FiniteSets, TLC

VARIABLES
    puzzles,          \* table puzzles: id -> [root_tps, solution]
    users,            \* table users: username -> rating
    puzzle_attempts,  \* table puzzle_attempts, in rowid (insertion) order
    clock,            \* strftime('%s','now') as the last INSERT read it
    resp              \* the last request and what its handler produced

vars == <<puzzles, users, puzzle_attempts, clock, resp>>

----------------------------------------------------------------------------
(* Bounds of the model *)

MaxAttempts == 2
MaxClock == 1

----------------------------------------------------------------------------
(* Text helpers *)

\* str::split_whitespace().count(): the number of maximal runs of
\* non-whitespace characters.
SplitWhitespaceCount(s) ==
    Cardinality({i \in 1..Len(s) : s[i] # " " /\ (i = 1 \/ s[i-1] = " ")})

\* chars().filter(|c| *c == '1' || *c == '2').count()
CountMarkers(s) ==
    Cardinality({i \in 1..Len(s) : s[i] = "1" \/ s[i] = "2"})

RECURSIVE Join(_)
\* Vec<String>::join(" ")
Join(tokens) ==
    IF tokens = <<>> THEN <<>>
    ELSE IF Len(tokens) = 1 THEN tokens[1]
    ELSE tokens[1] \o <<" ">> \o Join(Tail(tokens))

----------------------------------------------------------------------------
(* impl From<PuzzleRow> for Puzzle: the target time, in f32 arithmetic.    *)
(* An f32 is held exactly as an integer number of units of 2^-23.          *)

F32Unit == 8388608

\* The f32 nearest to 1.2, the literal of main.rs:49, in units of 2^-23
\* (1.2000000476837158).
F32OnePointTwo == 10066330

RECURSIVE F32Ulp(_)
\* The spacing of f32 values around p > 0 (24 significant bits), in units.
F32Ulp(p) == IF p < 2 * F32Unit THEN 1 ELSE 2 * F32Ulp(p \div 2)

\* Round to nearest f32, ties to even.
F32Round(p) ==
    LET u == F32Ulp(p)
        q == p \div u
        r == p % u
    IN  IF 2 * r < u THEN q * u
    ELSE IF 2 * r > u THEN (q + 1) * u
    ELSE IF q % 2 = 0 THEN q * u ELSE (q + 1) * u

UsizeDivCeil2(n) == (n + 1) \div 2

\* let num_pieces = root_tps.chars().filter(1 or 2).count() / 2
NumPieces(row) == CountMarkers(row.root_tps) \div 2

\* let length = solution.split_whitespace().count().div_ceil(2)
PlyPairs(row) == UsizeDivCeil2(SplitWhitespaceCount(row.solution))

\* let low_target_time = (20.0 + num_pieces as f32) * length as f32
\* (small integers: exact in f32)
LowTargetTime(row) == (20 + NumPieces(row)) * PlyPairs(row)

\* low_target_time * 1.2, rounded to f32, in units of 2^-23
HighTargetTime(row) == F32Round(LowTargetTime(row) * F32OnePointTwo)

\* rand::rng().random_range(low..high) as u32: random_range panics on an
\* empty range and otherwise returns some f32 x with low <= x < high; the
\* cast truncates.  The set of values the cast can produce; {} is the panic.
TargetTimes(row) ==
    LET low == LowTargetTime(row)
        high == HighTargetTime(row)
    IN  IF low * F32Unit < high
        THEN {t \in low..(high \div F32Unit) : t * F32Unit < high}
        ELSE {}

----------------------------------------------------------------------------
(* The environment the handlers run against *)

\* Puzzle ids requests name.  3 and 15 are the onboarding puzzles, 19 and 20
\* sit on either side of the pool cutoff (puzzles.id < 20).
Ids == {3, 15, 19, 20}

\* The row the puzzles table holds for an id, when it holds one.  The program
\* never writes this table (rows are inserted by hand, main.rs:232); every
\* solution has at least one token (the data model's invariant).
PuzzleRowOf(id) ==
    CASE id = 3  -> [root_tps |-> <<"x", ",", "1", "/", "x", " ", "1">>,
                     solution |-> <<"a", " ", "b">>]
      [] id = 15 -> [root_tps |-> <<"x", ",", "x">>,
                     solution |-> <<"a">>]
      [] id = 19 -> [root_tps |-> <<"2", "S", ",", "1", "C">>,
                     solution |-> <<" ", "a", " ">>]
      [] OTHER   -> [root_tps |-> <<"1", "2", "1", "C", " ", "2">>,
                     solution |-> <<"a", " ", " ", "b", " ", "c", " ", "d", " ", "e">>]

\* The catalogues the puzzles table may hold: the empty table of a fresh
\* database (init_db_tables), and puzzle 20 with any of the puzzles below the
\* cutoff.
Catalogues ==
    {[id \in S |-> PuzzleRowOf(id)] :
        S \in {{}} \cup {T \cup {20} : T \in SUBSET (Ids \ {20})}}

\* The users table: ratings are inserted by hand (main.rs:143); the program
\* only reads them.
UserRatings ==
    [u \in {"Morten", "Mort2", "ann", "bob"} |->
        CASE u = "ann" -> 1400 [] u = "bob" -> 1700 [] OTHER -> 1500]

\* What a request can see fail in the storage layer.
GetPuzzleFaults == {"none", "open", "read_attempts", "read_puzzle", "read_unsolved"}
RatingFaults == {"none", "open", "sample_query", "solution_query"}
SolveFaults == {"none", "open", "insert"}

\* Attempt payload fields that no handler reads back.
SolveTimes == {30}
SubmittedSolutions == {<<<<"a">>, <<"b">>>>}

NoResp ==
    [op |-> "none", status |-> "none", username |-> "", id |-> 0,
     fault |-> "none", puzzle |-> 0, target_time_seconds |-> 0,
     rating |-> 0, sample |-> {}]

----------------------------------------------------------------------------
(* The SQL queries *)

\* PARTITION BY username, puzzle_id: the rowids of one partition.
Partition(username, puzzle_id) ==
    {i \in DOMAIN puzzle_attempts :
        /\ puzzle_attempts[i].username = username
        /\ puzzle_attempts[i].puzzle_id = puzzle_id}

\* ROW_NUMBER() OVER (... ORDER BY timestamp_seconds ASC) = 1: the rows of a
\* partition that may be numbered 1.  The ORDER BY names timestamp_seconds
\* alone, so among rows of equal timestamp SQL leaves the numbering open.
RowNumberOne(part) ==
    {i \in part : \A j \in part :
        puzzle_attempts[i].timestamp_seconds <= puzzle_attempts[j].timestamp_seconds}

\* The rowids of one player's attempts (WHERE username = ?1).
AttemptsOfUser(username) ==
    {i \in DOMAIN puzzle_attempts : puzzle_attempts[i].username = username}

\* One numbering: a choice of the rn = 1 row for each partition in parts.
Rankings(parts) ==
    {f \in [parts -> DOMAIN puzzle_attempts] :
        \A pt \in parts : f[pt] \in RowNumberOne(Partition(pt[1], pt[2]))}

\* read_puzzle_attempts_for_user: the row sets the query may return.
ReadPuzzleAttemptsForUser(username) ==
    LET parts == {<<username, puzzle_attempts[i].puzzle_id>> :
                     i \in AttemptsOfUser(username)}
    IN  {{puzzle_attempts[f[pt]] : pt \in parts} : f \in Rankings(parts)}

\* read_puzzle_by_id: Some(row) or None.
ReadPuzzleById(id) == IF id \in DOMAIN puzzles THEN {id} ELSE {}

\* ReadUnsolvedPuzzles, had the cutoff been puzzles.id <= 20.
ReadUnsolvedPuzzlesInclusive(username) ==
    {id \in DOMAIN puzzles : id <= 20 /\ Partition(username, id) = {}}

\* read_unsolved_puzzles_from_db: the rows of puzzles LEFT JOIN
\* puzzle_attempts (on id and username) with puzzles.id < 20 and no joined
\* attempt; ORDER BY RANDOM() LIMIT 1 returns any one of them.
ReadUnsolvedPuzzles(username) ==
    {id \in DOMAIN puzzles : id < 20 /\ Partition(username, id) = {}}

\* The denylist, had it named Morten alone.
DenylistMortenOnly == {"Morten"}

\* username != 'Morten' AND username != 'Mort2'
Denylist == {"Morten", "Mort2"}

\* RatingRows, had the join been a LEFT JOIN with a default rating of 1500
\* for players without a row in users.
RatingRowsLeftJoin(puzzle_id) ==
    LET players == {u \in {puzzle_attempts[i].username : i \in DOMAIN puzzle_attempts} :
                       Partition(u, puzzle_id) # {} /\ u \notin Denylist}
        parts == {<<u, puzzle_id>> : u \in players}
    IN  {{[solved |-> puzzle_attempts[f[pt]].solved,
           username |-> pt[1],
           rating |-> IF pt[1] \in DOMAIN users THEN users[pt[1]] ELSE 1500] :
              pt \in parts} : f \in Rankings(parts)}

\* The query of rating_for_puzzles: ranked_attempts JOIN users, WHERE
\* puzzle_id = ?1 AND rn = 1 AND username not denylisted.  The row sets the
\* query may return, each row (solved, users.username, users.rating).
RatingRows(puzzle_id) ==
    LET players == {u \in DOMAIN users :
                       Partition(u, puzzle_id) # {} /\ u \notin Denylist}
        parts == {<<u, puzzle_id>> : u \in players}
    IN  {{[solved |-> puzzle_attempts[f[pt]].solved,
           username |-> pt[1],
           rating |-> users[pt[1]]] : pt \in parts} : f \in Rankings(parts)}

----------------------------------------------------------------------------
(* src/src/ratings.rs *)

\* DefaultPuzzleRating, had the token count been halved rounding up.
DefaultPuzzleRatingCeil(puzzle_id, query_failed) ==
    LET solution == IF puzzle_id \in DOMAIN puzzles /\ ~query_failed
                    THEN puzzles[puzzle_id].solution
                    ELSE <<>>
    IN  1250 + ((SplitWhitespaceCount(solution) + 1) \div 2) * 350

\* default_puzzle_rating: the solution query's error, whatever it is (no such
\* row, or a failed read), is dropped by unwrap_or_default and the solution
\* taken to be "".
DefaultPuzzleRating(puzzle_id, query_failed) ==
    LET solution == IF puzzle_id \in DOMAIN puzzles /\ ~query_failed
                    THEN puzzles[puzzle_id].solution
                    ELSE <<>>
    IN  1250 + (SplitWhitespaceCount(solution) \div 2) * 350

\* PuzzleOutcome, had a solved attempt been scored as the puzzle's win.
PuzzleOutcomeUninverted(row) == IF row.solved THEN "WIN" ELSE "LOSS"

\* if r.solved { Outcomes::LOSS } else { Outcomes::WIN }
PuzzleOutcome(row) == IF row.solved THEN "LOSS" ELSE "WIN"

\* let results = ratings.into_iter().map(...): one (player_rating, outcome)
\* per row; the name keeps equal pairs of different players apart.
RatingResults(rows) ==
    {[username |-> r.username, rating |-> r.rating, outcome |-> PuzzleOutcome(r)] :
        r \in rows}

(* skillratings::glicko2::glicko2_rating_period, in fixed point: rating      *)
(* points are integers, everything on the Glicko-2 scale is in thousandths. *)
(* Every player and the puzzle carry the default deviation 350 and          *)
(* volatility 0.06 (..Default::default()).                                  *)

\* g(phi) for the deviation 350: 1 / sqrt(1 + 3 phi^2 / pi^2) = 0.669
GValue == 669

\* phi^2 + sigma'^2 for the deviation 350 and the volatility 0.06: on samples
\* of this size the volatility iteration moves sigma' by less than 10^-4,
\* below a thousandth of phi^2.
PreRatingDeviationSq == 4063

ExpTerms == 12

RECURSIVE ExpSeries(_, _)
\* The Taylor series of exp(x / 1000) * 1000 in Horner's form, from the n-th
\* factor on: 1 + x/n (1 + x/(n+1) (1 + ...)).
ExpSeries(x, n) ==
    IF n > ExpTerms THEN 1000
    ELSE 1000 + (x * ExpSeries(x, n + 1)) \div (n * 1000)

\* Outcomes::to_chess_points
ChessPoints(outcome) == IF outcome = "WIN" THEN 1000 ELSE 0

\* E(mu, mu_j, g) = 1 / (1 + exp(-g (mu - mu_j))), mu = (rating - 1500) / 173.7178
EValue(rating, opponent) ==
    LET diff == rating - opponent
        mag == IF diff >= 0 THEN diff ELSE 0 - diff
        ex == ExpSeries((GValue * mag * 100) \div 17372, 1)
        e == (1000 * ex) \div (1000 + ex)
    IN  IF diff >= 0 THEN e ELSE 1000 - e

RECURSIVE SumVariance(_, _)
\* sum of g^2 E (1 - E), in millionths
SumVariance(rating, results) ==
    IF results = {} THEN 0
    ELSE LET r == CHOOSE x \in results : TRUE
             e == EValue(rating, r.rating)
         IN  (447 * (e * (1000 - e))) \div 1000
                + SumVariance(rating, results \ {r})

RECURSIVE SumScores(_, _)
\* sum of g (outcome - E), in millionths
SumScores(rating, results) ==
    IF results = {} THEN 0
    ELSE LET r == CHOOSE x \in results : TRUE
         IN  GValue * (ChessPoints(r.outcome) - EValue(rating, r.rating))
                + SumScores(rating, results \ {r})

\* The new rating of a player of the given rating after one rating period.
\* Without results only the deviation changes.
Glicko2RatingPeriod(rating, results) ==
    IF results = {} THEN rating
    ELSE LET v == 1000000000 \div SumVariance(rating, results)
             scores == SumScores(rating, results)
             mag == (IF scores >= 0 THEN scores ELSE 0 - scores) \div 1000
             deviation_sq == (PreRatingDeviationSq * v) \div (PreRatingDeviationSq + v)
             change == ((((deviation_sq * mag) \div 1000) * 1737) \div 10000)
         IN  IF scores >= 0 THEN rating + change ELSE rating - change

\* rating_for_puzzles, from the rows its query returned
RatingForPuzzles(puzzle_id, rows, solution_query_failed) ==
    Glicko2RatingPeriod(DefaultPuzzleRating(puzzle_id, solution_query_failed),
                        RatingResults(rows))

----------------------------------------------------------------------------
(* The request handlers of src/src/main.rs *)

Response(op, username, id, fault, status) ==
    [NoResp EXCEPT !.op = op, !.username = username, !.id = id,
                   !.fault = fault, !.status = status]

\* Ok(Json(Puzzle::from(row))): the conversion draws the target time, and
\* panics when its range is empty.
ServePuzzle(r, id) ==
    IF TargetTimes(puzzles[id]) = {}
    THEN {[r EXCEPT !.status = "panic"]}
    ELSE {[r EXCEPT !.status = "ok", !.puzzle = id, !.target_time_seconds = t] :
             t \in TargetTimes(puzzles[id])}

\* The onboarding step of get_puzzle for puzzle id: read_puzzle_by_id(id),
\* map_err(..)?, unwrap(), Puzzle::from.
ServeOnboarding(r, id, fault) ==
    IF fault = "read_puzzle"
    THEN {[r EXCEPT !.status = "server_error", !.fault = fault]}
    ELSE IF ReadPuzzleById(id) = {}
    THEN {[r EXCEPT !.status = "panic"]}
    ELSE ServePuzzle(r, id)

\* SelectPuzzle, had it asked for a solved attempt rather than any attempt.
SelectPuzzleSolvedOnly(r, username, puzzles_solved, fault) ==
    IF ~(\E attempt \in puzzles_solved : attempt.puzzle_id = 3 /\ attempt.solved)
    THEN ServeOnboarding(r, 3, fault)
    ELSE IF ~(\E attempt \in puzzles_solved : attempt.puzzle_id = 15 /\ attempt.solved)
    THEN ServeOnboarding(r, 15, fault)
    ELSE IF fault = "read_unsolved"
    THEN {[r EXCEPT !.status = "server_error", !.fault = fault]}
    ELSE IF ReadUnsolvedPuzzles(username) = {}
    THEN {[r EXCEPT !.status = "not_found"]}
    ELSE UNION {ServePuzzle(r, id) : id \in ReadUnsolvedPuzzles(username)}

\* What get_puzzle returns once it holds the player's first attempts.
SelectPuzzle(r, username, puzzles_solved, fault) ==
    IF ~(\E attempt \in puzzles_solved : attempt.puzzle_id = 3)
    THEN ServeOnboarding(r, 3, fault)
    ELSE IF ~(\E attempt \in puzzles_solved : attempt.puzzle_id = 15)
    THEN ServeOnboarding(r, 15, fault)
    ELSE IF fault = "read_unsolved"
    THEN {[r EXCEPT !.status = "server_error", !.fault = fault]}
    ELSE IF ReadUnsolvedPuzzles(username) = {}
    THEN {[r EXCEPT !.status = "not_found"]}
    ELSE UNION {ServePuzzle(r, id) : id \in ReadUnsolvedPuzzles(username)}

\* get_puzzle: the responses the handler can end with.  fault names the
\* storage access that fails, should the handler get to it.
get_puzzle(username, fault) ==
    LET r == Response("get_puzzle", username, 0, "none", "none")
    IN  IF username = ""
        THEN {[r EXCEPT !.status = "bad_request"]}
        ELSE IF fault = "open"
        THEN {[r EXCEPT !.status = "panic", !.fault = fault]}
        ELSE IF fault = "read_attempts"
        THEN {[r EXCEPT !.status = "server_error", !.fault = fault]}
        ELSE UNION {SelectPuzzle(r, username, puzzles_solved, fault) :
                       puzzles_solved \in ReadPuzzleAttemptsForUser(username)}

\* get_puzzle_rating
get_puzzle_rating(id, fault) ==
    LET r == Response("get_puzzle_rating", "", id, "none", "none")
    IN  IF fault = "open"
        THEN {[r EXCEPT !.status = "panic", !.fault = fault]}
        ELSE IF fault = "sample_query"
        THEN {[r EXCEPT !.status = "server_error", !.fault = fault]}
        ELSE {[r EXCEPT !.status = "ok",
                        !.fault = fault,
                        !.sample = rows,
                        !.rating = RatingForPuzzles(id, rows, fault = "solution_query")] :
                 rows \in RatingRows(id)}

\* The row INSERT INTO puzzle_attempts writes; timestamp_seconds takes its
\* DEFAULT (strftime('%s', 'now')), the second the INSERT runs in.
AttemptRow(id, payload, now) ==
    [puzzle_id |-> id,
     username |-> payload.username,
     solved |-> payload.solved,
     solve_time_seconds |-> payload.solve_time_seconds,
     solution |-> Join(payload.solution),
     timestamp_seconds |-> now]

\* InsertAttempt, had the statement been INSERT OR REPLACE on a table keyed by
\* (username, puzzle_id).
InsertOrReplaceAttempt(row) ==
    Append(SelectSeq(puzzle_attempts,
                     LAMBDA a : ~(a.username = row.username /\ a.puzzle_id = row.puzzle_id)),
           row)

\* The table after the INSERT.
InsertAttempt(row) == Append(puzzle_attempts, row)

\* solve_puzzle: the response, and whether the INSERT took place.  The
\* "insert" fault is any failure of the INSERT: the store unavailable, or a
\* constraint (the FOREIGN KEY on puzzle_id, where SQLite enforces it).
solve_puzzle(id, payload, fault) ==
    LET r == Response("solve_puzzle", payload.username, id, "none", "none")
    IN  IF payload.username = ""
        THEN [resp |-> [r EXCEPT !.status = "bad_request"], inserted |-> FALSE]
        ELSE IF fault # "none"
        THEN [resp |-> [r EXCEPT !.status = "server_error", !.fault = fault],
              inserted |-> FALSE]
        ELSE [resp |-> [r EXCEPT !.status = "ok"], inserted |-> TRUE]

Payloads(players) ==
    [username : players, solved : BOOLEAN,
     solve_time_seconds : SolveTimes, solution : SubmittedSolutions]

GetPuzzle(username, fault) ==
    /\ resp' \in get_puzzle(username, fault)
    /\ UNCHANGED <<puzzles, users, puzzle_attempts, clock>>

GetPuzzleRating(id, fault) ==
    /\ resp' \in get_puzzle_rating(id, fault)
    /\ UNCHANGED <<puzzles, users, puzzle_attempts, clock>>

\* now is the second the request arrives in: time does not run backwards,
\* and several requests may arrive within one second.
SolvePuzzle(id, payload, fault, now) ==
    /\ Len(puzzle_attempts) < MaxAttempts
    /\ resp' = solve_puzzle(id, payload, fault).resp
    /\ IF solve_puzzle(id, payload, fault).inserted
       THEN /\ puzzle_attempts' = InsertAttempt(AttemptRow(id, payload, now))
            /\ clock' = now
       ELSE UNCHANGED <<puzzle_attempts, clock>>
    /\ UNCHANGED <<puzzles, users>>

Seconds == clock..MaxClock

\* The state of a database init_db_tables has opened, before any request:
\* no attempt yet, the hand-filled tables as the environment left them.
InitDb(catalogues) ==
    /\ puzzles \in catalogues
    /\ users = UserRatings
    /\ puzzle_attempts = <<>>
    /\ clock = 0
    /\ resp = NoResp

----------------------------------------------------------------------------
(* The service: all three routes, with storage faults *)

ServicePlayers == {"", "ann"}
ServiceIds == {3, 15}

Init == InitDb({[id \in S |-> PuzzleRowOf(id)] : S \in SUBSET ServiceIds})

Next ==
    \/ \E username \in ServicePlayers, fault \in GetPuzzleFaults :
          GetPuzzle(username, fault)
    \/ \E id \in ServiceIds, fault \in RatingFaults : GetPuzzleRating(id, fault)
    \/ \E id \in ServiceIds, payload \in Payloads(ServicePlayers),
          fault \in SolveFaults, now \in Seconds :
          SolvePuzzle(id, payload, fault, now)

Spec == Init /\ [][Next]_vars

----------------------------------------------------------------------------
(* The selector: one player's way through any catalogue, another player's  *)
(* attempts beside it.  All requests of a run arrive within one second, so  *)
(* that any attempt of a (player, puzzle) pair may be the one numbered 1.   *)

SelectPlayers == {"", "ann", "bob"}

\* The puzzles the other player attempts: the first onboarding puzzle and a
\* pool puzzle.
OtherAttemptedIds == {3, 19}

InitSelect == InitDb(Catalogues)

NextSelect ==
    \/ \E username \in SelectPlayers : GetPuzzle(username, "none")
    \/ \E id \in Ids, payload \in Payloads({"ann"}) :
          SolvePuzzle(id, payload, "none", clock)
    \/ \E id \in OtherAttemptedIds, payload \in Payloads({"bob"}) :
          SolvePuzzle(id, payload, "none", clock)

SpecSelect == InitSelect /\ [][NextSelect]_vars

----------------------------------------------------------------------------
(* The rating: attempts of rated, unrated and denylisted players on one    *)
(* puzzle, ratings asked for it, for an unattempted and for a missing one  *)

RatingPlayers == {"Morten", "Mort2", "ann", "bob", "guest"}
AttemptedIds == {3}
RatedIds == {3, 15, 20}

InitRating ==
    InitDb({[id \in S |-> PuzzleRowOf(id)] : S \in {{3, 19, 20}, {15, 20}}})

NextRating ==
    \/ \E id \in RatedIds : GetPuzzleRating(id, "none")
    \/ \E id \in AttemptedIds, payload \in Payloads(RatingPlayers), now \in Seconds :
          SolvePuzzle(id, payload, "none", now)
    \/ \E payload \in Payloads({"ann"}), now \in Seconds :
          SolvePuzzle(15, payload, "none", now)

SpecRating == InitRating /\ [][NextRating]_vars

----------------------------------------------------------------------------
(* The target time: one puzzle, its root position and its solution drawn   *)
(* from bounded sets of texts, served to a new player *)

MaxMarkers == 11
MaxTokens == 4

\* A position of n piece markers, alternately 1 and 2, separated by commas.
TpsOfMarkers(n) ==
    [i \in 1..(2 * n) |-> IF i % 2 = 0 THEN "," ELSE IF i % 4 = 1 THEN "1" ELSE "2"]

\* A solution of k one-letter tokens, separated by single spaces.
SolutionOfTokens(k) ==
    [i \in 1..(IF k = 0 THEN 0 ELSE 2 * k - 1) |-> IF i % 2 = 0 THEN " " ELSE "a"]

TimeRows ==
    {[root_tps |-> TpsOfMarkers(n) \o tail, solution |-> lead \o SolutionOfTokens(k)] :
        n \in 0..MaxMarkers, k \in 0..MaxTokens,
        tail \in {<<>>, <<" ", "x">>}, lead \in {<<>>, <<" ">>}}

InitTime == InitDb({[id \in {3} |-> row] : row \in TimeRows})

NextTime == \E username \in {"ann"} : GetPuzzle(username, "none")

SpecTime == InitTime /\ [][NextTime]_vars

----------------------------------------------------------------------------
(* What the properties are stated with: the tables read directly, and      *)
(* token and marker counts taken by recursion over the text. *)

HasAttempt(username, id) ==
    \E i \in DOMAIN puzzle_attempts :
        puzzle_attempts[i].username = username /\ puzzle_attempts[i].puzzle_id = id

RECURSIVE SkipWord(_)
SkipWord(s) == IF s = <<>> \/ Head(s) = " " THEN s ELSE SkipWord(Tail(s))

RECURSIVE Tokens(_)
Tokens(s) ==
    IF s = <<>> THEN 0
    ELSE IF Head(s) = " " THEN Tokens(Tail(s))
    ELSE 1 + Tokens(SkipWord(s))

RECURSIVE Markers(_)
Markers(s) ==
    IF s = <<>> THEN 0
    ELSE (IF Head(s) \in {"1", "2"} THEN 1 ELSE 0) + Markers(Tail(s))

\* 1250 + 350 * floor(n / 2), n = 0 for a puzzle that does not exist
DefaultRatingOf(id) ==
    1250 + 350 * ((IF id \in DOMAIN puzzles THEN Tokens(puzzles[id].solution) ELSE 0) \div 2)

Served == resp.op = "get_puzzle" /\ resp.status = "ok"
Asked == resp.op = "get_puzzle" /\ resp.username # ""
Rated == resp.op = "get_puzzle_rating" /\ resp.status = "ok"

----------------------------------------------------------------------------
(* C1 *)

\* C1, as claimed: for any ledger and any catalogue, a player without an
\* attempt on puzzle 3 is served puzzle 3; one with an attempt on 3 and none
\* on 15 is served puzzle 15; only one with attempts on both gets the pool's
\* answer.
C1_OnboardingAnyCatalogue ==
    Asked =>
        /\ ~HasAttempt(resp.username, 3) => Served /\ resp.puzzle = 3
        /\ HasAttempt(resp.username, 3) /\ ~HasAttempt(resp.username, 15)
              => Served /\ resp.puzzle = 15
        /\ (resp.status = "not_found" \/ (Served /\ resp.puzzle \notin {3, 15}))
              => HasAttempt(resp.username, 3) /\ HasAttempt(resp.username, 15)

\* C1, amended: the onboarding priority holds whenever the onboarding puzzle
\* that is due exists in the catalogue; when it does not, get_puzzle serves
\* nothing and ends in a panic (unwrap of None), whatever the pool holds.
C1_OnboardingPriority ==
    Asked =>
        /\ ~HasAttempt(resp.username, 3) =>
              IF 3 \in DOMAIN puzzles
              THEN Served /\ resp.puzzle = 3
              ELSE resp.status = "panic"
        /\ HasAttempt(resp.username, 3) /\ ~HasAttempt(resp.username, 15) =>
              IF 15 \in DOMAIN puzzles
              THEN Served /\ resp.puzzle = 15
              ELSE resp.status = "panic"
        /\ (resp.status = "not_found" \/ (Served /\ resp.puzzle \notin {3, 15}))
              => HasAttempt(resp.username, 3) /\ HasAttempt(resp.username, 15)

\* Puzzle 15 served to a player whose only attempt on puzzle 3 failed, while
\* another pool puzzle is there to be picked.
C1_Witness ==
    /\ Served /\ resp.puzzle = 15
    /\ 19 \in DOMAIN puzzles
    /\ \A i \in DOMAIN puzzle_attempts :
          puzzle_attempts[i].username = resp.username
              => puzzle_attempts[i].puzzle_id = 3 /\ ~puzzle_attempts[i].solved
    /\ HasAttempt(resp.username, 3)

----------------------------------------------------------------------------
(* C2 *)

\* The pool of a player: the existing puzzles with id < 20 the player has no
\* attempt on.
PoolOf(username) ==
    {id \in DOMAIN puzzles : id < 20 /\ ~HasAttempt(username, id)}

PastOnboarding(username) == HasAttempt(username, 3) /\ HasAttempt(username, 15)

C2_WitnessExhausted ==
    /\ Asked /\ resp.status = "not_found"
    /\ 20 \in DOMAIN puzzles

----------------------------------------------------------------------------
(* C3 *)

\* The rowid of the attempt a (player, puzzle) pair wrote first.
FirstWritten(username, id) ==
    CHOOSE i \in Partition(username, id) : \A j \in Partition(username, id) : i <= j

\* C3, as claimed: the rating sample holds at most one outcome per player,
\* and it is the outcome of the player's minimum-timestamp attempt, chosen
\* deterministically: the attempt the player wrote first (timestamps never
\* decrease), which no later re-attempt replaces.
C3_EarliestAttemptDeterministic ==
    Rated =>
        /\ \A r1, r2 \in resp.sample : r1.username = r2.username => r1 = r2
        /\ \A r \in resp.sample :
              r.solved = puzzle_attempts[FirstWritten(r.username, resp.id)].solved

\* What does hold: one outcome per player, and it is the outcome of an
\* attempt of the player on the puzzle that no other such attempt precedes
\* in time.
C3_OnePerPlayerMinTimestamp ==
    Rated =>
        /\ \A r1, r2 \in resp.sample : r1.username = r2.username => r1 = r2
        /\ \A r \in resp.sample :
              \E i \in Partition(r.username, resp.id) :
                  /\ puzzle_attempts[i].solved = r.solved
                  /\ \A j \in Partition(r.username, resp.id) :
                        puzzle_attempts[i].timestamp_seconds
                            <= puzzle_attempts[j].timestamp_seconds

----------------------------------------------------------------------------
(* C4 *)

\* C4: a rating computed from an empty sample is exactly the default rating
\* 1250 + 350 * floor(n / 2) of the puzzle, n its solution's token count,
\* and 1250 for a puzzle id that does not exist.
C4_ZeroSampleRating ==
    Rated /\ resp.sample = {} /\ resp.fault = "none"
        => resp.rating = DefaultRatingOf(resp.id)

\* The default rating of a five-token puzzle returned for an empty sample.
C4_Witness ==
    /\ Rated /\ resp.sample = {}
    /\ resp.id \in DOMAIN puzzles
    /\ resp.rating = 1950

\* 1250 returned for a puzzle that does not exist, attempts on it recorded.
C4_WitnessMissing ==
    /\ Rated /\ resp.sample = {}
    /\ resp.id \notin DOMAIN puzzles
    /\ resp.rating = 1250
    /\ \E username \in RatingPlayers : HasAttempt(username, resp.id)

----------------------------------------------------------------------------
(* C5 *)

\* The sample with one player's outcome flipped.
Flipped(sample, r) == (sample \ {r}) \cup {[r EXCEPT !.solved = ~r.solved]}

\* C5: a solved first attempt counts as a loss of the puzzle and a failed one
\* as a win: a sample of solvers alone leaves the rating below the default,
\* a sample of failures alone above it; and with the sampled players fixed,
\* flipping one outcome from failed to solved never raises the returned
\* rating, from solved to failed never lowers it.
C5_RatingInversion ==
    Rated /\ resp.fault = "none" =>
        /\ resp.sample # {} /\ (\A r \in resp.sample : r.solved)
              => resp.rating < DefaultRatingOf(resp.id)
        /\ resp.sample # {} /\ (\A r \in resp.sample : ~r.solved)
              => resp.rating > DefaultRatingOf(resp.id)
        /\ \A r \in resp.sample :
              LET other == RatingForPuzzles(resp.id, Flipped(resp.sample, r), FALSE)
              IN  IF r.solved THEN other >= resp.rating ELSE other <= resp.rating

\* A rating from a sample of two players, one who solved the puzzle and one
\* who failed.
C5_Witness ==
    /\ Rated
    /\ \E r1, r2 \in resp.sample : r1.solved /\ ~r2.solved

----------------------------------------------------------------------------
(* C6 *)

\* C6: no rating sample holds an attempt of Morten or Mort2, and the sample
\* of a puzzle only they attempted is empty.
C6_DenylistExcluded ==
    Rated =>
        /\ \A r \in resp.sample : r.username \notin {"Morten", "Mort2"}
        /\ (\A i \in DOMAIN puzzle_attempts :
               puzzle_attempts[i].puzzle_id = resp.id
                   => puzzle_attempts[i].username \in {"Morten", "Mort2"})
              => resp.sample = {}

\* The empty sample of a puzzle that Morten and Mort2, both rated, attempted.
C6_Witness ==
    /\ Rated /\ resp.sample = {}
    /\ HasAttempt("Morten", resp.id) /\ HasAttempt("Mort2", resp.id)
    /\ {"Morten", "Mort2"} \subseteq DOMAIN users

----------------------------------------------------------------------------
(* C10 *)

\* The ratings rating_for_puzzles may return for a puzzle.
PossibleRatings(id) == {RatingForPuzzles(id, rows, FALSE) : rows \in RatingRows(id)}

\* C10: a rating sample holds only players of the users table, with the
\* rating the table gives them; a puzzle attempted only by players without a
\* rating has its default rating; and an attempt written by such a player
\* changes the rating of no puzzle.
C10_UnratedPlayersContributeNothing ==
    /\ [](Rated /\ resp.fault = "none" =>
            /\ \A r \in resp.sample :
                  r.username \in DOMAIN users /\ r.rating = users[r.username]
            /\ (\A i \in DOMAIN puzzle_attempts :
                   puzzle_attempts[i].puzzle_id = resp.id
                       => puzzle_attempts[i].username \notin DOMAIN users)
                  => resp.rating = DefaultRatingOf(resp.id))
    /\ [][(/\ Len(puzzle_attempts') = Len(puzzle_attempts) + 1
           /\ puzzle_attempts'[Len(puzzle_attempts')].username \notin DOMAIN users)
             => \A id \in RatedIds : PossibleRatings(id)' = PossibleRatings(id)]_vars

\* A rating from the sample of a puzzle that a rated and an unrated player
\* attempted: the rated player's outcome alone.
C10_Witness ==
    /\ Rated
    /\ HasAttempt("guest", resp.id) /\ HasAttempt("ann", resp.id)
    /\ Cardinality(resp.sample) = 1

----------------------------------------------------------------------------
(* C7 *)

\* low = (20 + pieceCount) * plyPairs of a puzzle row
LowOf(row) ==
    (20 + Markers(row.root_tps) \div 2) * ((Tokens(row.solution) + 1) \div 2)

\* C7, as claimed: the target time t of every puzzle served satisfies
\* low <= t < low * 1.2 (that is, 5 t < 6 low).
C7_TargetTimeBounds ==
    Served =>
        /\ LowOf(puzzles[resp.puzzle]) <= resp.target_time_seconds
        /\ 5 * resp.target_time_seconds < 6 * LowOf(puzzles[resp.puzzle])

\* What does hold: low <= t <= low * 1.2.
C7_TargetTimeBoundsClosed ==
    Served =>
        /\ LowOf(puzzles[resp.puzzle]) <= resp.target_time_seconds
        /\ 5 * resp.target_time_seconds <= 6 * LowOf(puzzles[resp.puzzle])

----------------------------------------------------------------------------
(* C8 *)

\* C8, as claimed: a request that meets a storage failure, at the open or at
\* any data access, ends with a server-side failure response.
C8_StorageFailuresSurfaced ==
    resp.fault # "none" => resp.status = "server_error"

----------------------------------------------------------------------------
(* C9 *)

IsPrefix(s, t) == Len(s) <= Len(t) /\ SubSeq(t, 1, Len(s)) = s

\* C9: no step changes or removes a record of the ledger, the puzzles or the
\* player ratings; get_puzzle and get_puzzle_rating leave the ledger as it is;
\* solve_puzzle adds exactly one record, the request's, when it succeeds and
\* none when it does not.
C9_AppendOnly ==
    [][/\ puzzles' = puzzles
       /\ users' = users
       /\ IsPrefix(puzzle_attempts, puzzle_attempts')
       /\ resp'.op \in {"get_puzzle", "get_puzzle_rating"}
             => puzzle_attempts' = puzzle_attempts
       /\ resp'.op = "solve_puzzle" =>
             IF resp'.status = "ok"
             THEN /\ Len(puzzle_attempts') = Len(puzzle_attempts) + 1
                  /\ puzzle_attempts'[Len(puzzle_attempts')].puzzle_id = resp'.id
                  /\ puzzle_attempts'[Len(puzzle_attempts')].username = resp'.username
             ELSE puzzle_attempts' = puzzle_attempts]_vars

\* A second attempt of a player on a puzzle recorded after the first, both
\* in the ledger.
C9_Witness ==
    /\ resp.op = "solve_puzzle" /\ resp.status = "ok"
    /\ Len(puzzle_attempts) = 2
    /\ puzzle_attempts[1].username = puzzle_attempts[2].username
    /\ puzzle_attempts[1].puzzle_id = puzzle_attempts[2].puzzle_id
    /\ puzzle_attempts[1].solved # puzzle_attempts[2].solved

====
